---- MODULE Spec2Model ----
(***************************************************************************)
(* gds ordered map (maps/treemap) over its red-black tree engine           *)
(* (trees/redblacktree).  The facade is translated from                    *)
(* src/maps/treemap/treemap.go.  The engine is modelled from the design    *)
(* document, spec.md sections 3 and 4.1, as an arena of nodes linked by    *)
(* indices (spec.md section 9).  The in-order iterator is modelled from    *)
(* spec.md section 4.3.                                                    *)
(*                                                                         *)
(* Beside it: the bidirectional hash map (src/maps/hashbidimap), the       *)
(* insertion-ordered hash map (src/unnamed/part_002) and the array list    *)
(* with its iterator (src/lists/arraylist), each with its own variables    *)
(* and specification.                                                      *)
(***************************************************************************)
EXTENDS Integers, Sequences, FiniteSets, TLC

\* ---- bounds ----
\* Spec and SpecCalls draw keys from 0..MaxKey and values from 0..MaxVal;
\* SpecShape draws keys from 0..MaxShapeKey, SpecDrain from 0..MaxDrainKey,
\* SpecFixup from 0..MaxFixKey
MaxKey == 4
MaxVal == 1
MaxShapeKey == 9
MaxDrainKey == 7
MaxFixKey == 5

\* Go's nil.  As a node reference it is the absent child / parent / root.
\* As a key or a value it is the nil interface value: key 0 and value 0 stand
\* for a nil key and a nil value, which a map built by NewWith(comparator)
\* accepts when the comparator orders nil before every other key.
Nil == 0

KeySet == 0..MaxKey
ValSet == 0..MaxVal
ShapeKeys == 0..MaxShapeKey
\* every key of the model; queries range over all of them
AllKeys == KeySet \cup ShapeKeys
\* the arena has one slot for each key the map can hold at a time
NodeIds == {k + 1 : k \in AllKeys}

\* tree: the Map's tree field
\* ref:  a reference sorted association list run side by side with the map
\* last: the most recent recorded call
\* it:   an iterator over the ordered map, and the keys it has visited
\* bidi, bidiLast:   the bidirectional hash map and its most recent call
\* linked, linkedRef: the insertion-ordered hash map and a reference list of its
\*                    live entries in first-insertion order
\* linkedLast:        the most recent call on the insertion-ordered map
\* list, listLast:    the array list and its most recent call
\* listIt:            an iterator over the array list
\* call:              the Put or Remove in progress on the ordered map, when
\*                    its fixup loop is followed one iteration at a time
VARIABLES tree, ref, last, it, bidi, bidiLast, linked, linkedRef, linkedLast,
          list, listLast, listIt, call
vars == <<tree, ref, last, it, bidi, bidiLast, linked, linkedRef, linkedLast,
          list, listLast, listIt, call>>
\* the state outside the ordered map and its reference model
others == <<it, bidi, bidiLast, linked, linkedRef, linkedLast, list, listLast, listIt,
            call>>
\* the state outside the bidirectional map
notBidi == <<tree, ref, last, it, linked, linkedRef, linkedLast, list, listLast, listIt,
             call>>
\* the state outside the insertion-ordered map
notLinked == <<tree, ref, last, it, bidi, bidiLast, list, listLast, listIt, call>>
\* the state outside the array list and its iterator
notList == <<tree, ref, last, it, bidi, bidiLast, linked, linkedRef, linkedLast, call>>

\* ---- Node and Tree (spec.md section 3) ----
FreeNode == [key |-> Nil, value |-> Nil, color |-> "free",
             left |-> Nil, right |-> Nil, parent |-> Nil]

\* utils.Comparator: negative, zero or positive
Comparator(a, b) == IF a < b THEN -1 ELSE IF a = b THEN 0 ELSE 1

NewTree == [root |-> Nil, size |-> 0, n |-> [x \in NodeIds |-> FreeNode]]

\* nil leaves are Black
nodeColor(t, x) == IF x = Nil THEN "black" ELSE t.n[x].color

Live(t) == {x \in NodeIds : t.n[x].color # "free"}

\* Node references are opaque to every caller, so a tree is kept up to the
\* renaming of its arena slots: the node that holds key k lives in slot k + 1.
\* A new node for key is allocated in that slot.
NewNode(t, key) == key + 1

\* the slot of node x once every node sits in the slot of the key it holds
slotOf(t, x) == IF x = Nil THEN Nil ELSE t.n[x].key + 1

\* the same tree with every node moved to the slot of the key it holds; only a
\* node whose key was overwritten (Remove, two children) changes slot
Relocate(t) ==
    [root |-> slotOf(t, t.root),
     size |-> t.size,
     n |-> [s \in NodeIds |->
              IF \E x \in Live(t) : slotOf(t, x) = s
              THEN LET x == CHOOSE x \in Live(t) : slotOf(t, x) = s IN
                   [key |-> t.n[x].key, value |-> t.n[x].value, color |-> t.n[x].color,
                    left |-> slotOf(t, t.n[x].left), right |-> slotOf(t, t.n[x].right),
                    parent |-> slotOf(t, t.n[x].parent)]
              ELSE FreeNode]]

\* ---- rotations (spec.md section 4.1, Rotations) ----
\* put node c into the slot that node x occupies under x's parent (or the root)
replaceInParent(t, x, c) ==
    LET p == t.n[x].parent IN
    LET t1 == IF p = Nil THEN [t EXCEPT !.root = c]
              ELSE IF t.n[p].left = x THEN [t EXCEPT !.n[p].left = c]
              ELSE [t EXCEPT !.n[p].right = c]
    IN IF c = Nil THEN t1 ELSE [t1 EXCEPT !.n[c].parent = p]

\* rotateLeft that leaves the parent link of the moved subtree on its old parent
rotateLeftStaleParent(t, x) ==
    LET y == t.n[x].right IN
    LET t1 == replaceInParent(t, x, y) IN
    [t1 EXCEPT !.n[x].right = t.n[y].left, !.n[x].parent = y, !.n[y].left = x]

rotateLeft(t, x) ==
    LET y == t.n[x].right IN
    LET b == t.n[y].left IN
    LET t1 == replaceInParent(t, x, y) IN
    LET t2 == [t1 EXCEPT !.n[x].right = b, !.n[x].parent = y, !.n[y].left = x] IN
    IF b = Nil THEN t2 ELSE [t2 EXCEPT !.n[b].parent = x]

rotateRight(t, x) ==
    LET y == t.n[x].left IN
    LET b == t.n[y].right IN
    LET t1 == replaceInParent(t, x, y) IN
    LET t2 == [t1 EXCEPT !.n[x].left = b, !.n[x].parent = y, !.n[y].right = x] IN
    IF b = Nil THEN t2 ELSE [t2 EXCEPT !.n[b].parent = x]

\* ---- Search ----
RECURSIVE lookupFrom(_, _, _)
lookupFrom(t, x, key) ==
    IF x = Nil THEN Nil
    ELSE LET c == Comparator(key, t.n[x].key) IN
         IF c = 0 THEN x
         ELSE IF c < 0 THEN lookupFrom(t, t.n[x].left, key)
         ELSE lookupFrom(t, t.n[x].right, key)

lookup(t, key) == lookupFrom(t, t.root, key)

TreeGet(t, key) ==
    LET x == lookup(t, key) IN
    IF x # Nil THEN <<t.n[x].value, TRUE>> ELSE <<Nil, FALSE>>

\* ---- Put and InsertFixup ----
RECURSIVE InsertFixup(_, _)
InsertFixup(t, z) ==
    LET p == t.n[z].parent IN
    IF p = Nil \/ nodeColor(t, p) = "black"
    THEN [t EXCEPT !.n[t.root].color = "black"]
    ELSE
      LET g == t.n[p].parent IN
      IF p = t.n[g].left
      THEN LET u == t.n[g].right IN
           IF nodeColor(t, u) = "red"
           THEN InsertFixup([t EXCEPT !.n[p].color = "black", !.n[u].color = "black",
                                      !.n[g].color = "red"], g)
           ELSE LET t1 == IF z = t.n[p].right THEN rotateLeft(t, p) ELSE t IN
                LET z1 == IF z = t.n[p].right THEN p ELSE z IN
                LET p1 == t1.n[z1].parent IN
                LET t2 == [t1 EXCEPT !.n[p1].color = "black", !.n[g].color = "red"] IN
                InsertFixup(rotateRight(t2, g), z1)
      ELSE LET u == t.n[g].left IN
           IF nodeColor(t, u) = "red"
           THEN InsertFixup([t EXCEPT !.n[p].color = "black", !.n[u].color = "black",
                                      !.n[g].color = "red"], g)
           ELSE LET t1 == IF z = t.n[p].left THEN rotateRight(t, p) ELSE t IN
                LET z1 == IF z = t.n[p].left THEN p ELSE z IN
                LET p1 == t1.n[z1].parent IN
                LET t2 == [t1 EXCEPT !.n[p1].color = "black", !.n[g].color = "red"] IN
                InsertFixup(rotateLeft(t2, g), z1)

\* the node under which key belongs, or the node that holds key
RECURSIVE insertionPoint(_, _, _)
insertionPoint(t, x, key) ==
    LET c == Comparator(key, t.n[x].key) IN
    IF c = 0 THEN x
    ELSE IF c < 0 THEN (IF t.n[x].left = Nil THEN x ELSE insertionPoint(t, t.n[x].left, key))
    ELSE (IF t.n[x].right = Nil THEN x ELSE insertionPoint(t, t.n[x].right, key))

TreePut(t, key, value) ==
    LET z == NewNode(t, key) IN
    LET leaf == [key |-> key, value |-> value, color |-> "red",
                 left |-> Nil, right |-> Nil, parent |-> Nil] IN
    IF t.root = Nil
    THEN LET t1 == [t EXCEPT !.root = z, !.n[z] = leaf] IN
         [InsertFixup(t1, z) EXCEPT !.size = t.size + 1]
    ELSE
      LET p == insertionPoint(t, t.root, key) IN
      LET c == Comparator(key, t.n[p].key) IN
      IF c = 0
      THEN [t EXCEPT !.n[p].value = value]
      ELSE LET t1 == [t EXCEPT !.n[z] = [leaf EXCEPT !.parent = p]] IN
           LET t2 == IF c < 0 THEN [t1 EXCEPT !.n[p].left = z]
                     ELSE [t1 EXCEPT !.n[p].right = z] IN
           [InsertFixup(t2, z) EXCEPT !.size = t.size + 1]

\* ---- Remove and DeleteFixup ----
RECURSIVE minimumNode(_, _)
minimumNode(t, x) == IF t.n[x].left = Nil THEN x ELSE minimumNode(t, t.n[x].left)

RECURSIVE maximumNode(_, _)
maximumNode(t, x) == IF t.n[x].right = Nil THEN x ELSE maximumNode(t, t.n[x].right)

\* DeleteFixup whose loop never runs
DeleteFixupNoLoop(t, x, xp) == IF x = Nil THEN t ELSE [t EXCEPT !.n[x].color = "black"]

\* x is the node (possibly nil) that took the place of the spliced-out Black
\* node, xp is its parent: the nil position has no parent link of its own
RECURSIVE DeleteFixup(_, _, _)
DeleteFixup(t, x, xp) ==
    IF x = t.root \/ nodeColor(t, x) = "red"
    THEN IF x = Nil THEN t ELSE [t EXCEPT !.n[x].color = "black"]
    ELSE
      IF x = t.n[xp].left
      THEN
        LET w0 == t.n[xp].right IN
        \* Red sibling: rotate to make it Black and retry
        LET t1 == IF nodeColor(t, w0) = "red"
                  THEN rotateLeft([t EXCEPT !.n[w0].color = "black",
                                            !.n[xp].color = "red"], xp)
                  ELSE t IN
        LET w1 == t1.n[xp].right IN
        IF nodeColor(t1, t1.n[w1].left) = "black" /\ nodeColor(t1, t1.n[w1].right) = "black"
        THEN \* Black sibling with two Black children: push the deficiency upward
             DeleteFixup([t1 EXCEPT !.n[w1].color = "red"], xp, t1.n[xp].parent)
        ELSE
          LET t2 == IF nodeColor(t1, t1.n[w1].right) = "black"
                    THEN rotateRight([t1 EXCEPT !.n[t1.n[w1].left].color = "black",
                                                !.n[w1].color = "red"], w1)
                    ELSE t1 IN
          LET w2 == t2.n[xp].right IN
          LET t3 == [t2 EXCEPT !.n[w2].color = t2.n[xp].color,
                               !.n[xp].color = "black",
                               !.n[t2.n[w2].right].color = "black"] IN
          LET t4 == rotateLeft(t3, xp) IN
          DeleteFixup(t4, t4.root, Nil)
      ELSE
        LET w0 == t.n[xp].left IN
        LET t1 == IF nodeColor(t, w0) = "red"
                  THEN rotateRight([t EXCEPT !.n[w0].color = "black",
                                             !.n[xp].color = "red"], xp)
                  ELSE t IN
        LET w1 == t1.n[xp].left IN
        IF nodeColor(t1, t1.n[w1].left) = "black" /\ nodeColor(t1, t1.n[w1].right) = "black"
        THEN DeleteFixup([t1 EXCEPT !.n[w1].color = "red"], xp, t1.n[xp].parent)
        ELSE
          LET t2 == IF nodeColor(t1, t1.n[w1].left) = "black"
                    THEN rotateLeft([t1 EXCEPT !.n[t1.n[w1].right].color = "black",
                                               !.n[w1].color = "red"], w1)
                    ELSE t1 IN
          LET w2 == t2.n[xp].left IN
          LET t3 == [t2 EXCEPT !.n[w2].color = t2.n[xp].color,
                               !.n[xp].color = "black",
                               !.n[t2.n[w2].left].color = "black"] IN
          LET t4 == rotateRight(t3, xp) IN
          DeleteFixup(t4, t4.root, Nil)

\* ---- Put and Remove up to their fixup loops ----
\* the tree after Put has linked the new Red leaf for key, and that leaf
attachLeaf(t, key, value) ==
    LET z == NewNode(t, key) IN
    LET leaf == [key |-> key, value |-> value, color |-> "red",
                 left |-> Nil, right |-> Nil, parent |-> Nil] IN
    IF t.root = Nil
    THEN [t |-> [t EXCEPT !.root = z, !.n[z] = leaf], z |-> z]
    ELSE LET p == insertionPoint(t, t.root, key) IN
         LET t1 == [t EXCEPT !.n[z] = [leaf EXCEPT !.parent = p]] IN
         [t |-> IF Comparator(key, t.n[p].key) < 0 THEN [t1 EXCEPT !.n[p].left = z]
                ELSE [t1 EXCEPT !.n[p].right = z],
          z |-> z]

\* the tree after Remove has spliced out the node of z (or of its successor),
\* the position x that took its place under xp, and whether the node was Black
spliceOut(t, z) ==
    LET two == t.n[z].left # Nil /\ t.n[z].right # Nil IN
    LET y == IF two THEN minimumNode(t, t.n[z].right) ELSE z IN
    LET t1 == IF two THEN [t EXCEPT !.n[z].key = t.n[y].key, !.n[z].value = t.n[y].value]
              ELSE t IN
    LET x == IF t1.n[y].left # Nil THEN t1.n[y].left ELSE t1.n[y].right IN
    [t |-> [replaceInParent(t1, y, x) EXCEPT !.n[y] = FreeNode],
     x |-> x, xp |-> t1.n[y].parent, wasBlack |-> t1.n[y].color = "black"]

\* ---- the fixup loops, one iteration at a time ----
\* an InsertFixup iteration that exits only at the root
insertFixupStepRootExit(t, z) ==
    IF t.n[z].parent = Nil
    THEN [t |-> [t EXCEPT !.n[t.root].color = "black"], z |-> z, done |-> TRUE]
    ELSE [t |-> t, z |-> z, done |-> FALSE]

\* one iteration of the InsertFixup loop at focus z: done when the loop exits,
\* after forcing the root Black
insertFixupStep(t, z) ==
    LET p == t.n[z].parent IN
    IF p = Nil \/ nodeColor(t, p) = "black"
    THEN [t |-> [t EXCEPT !.n[t.root].color = "black"], z |-> z, done |-> TRUE]
    ELSE
      LET g == t.n[p].parent IN
      IF p = t.n[g].left
      THEN LET u == t.n[g].right IN
           IF nodeColor(t, u) = "red"
           THEN [t |-> [t EXCEPT !.n[p].color = "black", !.n[u].color = "black",
                                 !.n[g].color = "red"],
                 z |-> g, done |-> FALSE]
           ELSE LET t1 == IF z = t.n[p].right THEN rotateLeft(t, p) ELSE t IN
                LET z1 == IF z = t.n[p].right THEN p ELSE z IN
                LET p1 == t1.n[z1].parent IN
                LET t2 == [t1 EXCEPT !.n[p1].color = "black", !.n[g].color = "red"] IN
                [t |-> rotateRight(t2, g), z |-> z1, done |-> FALSE]
      ELSE LET u == t.n[g].left IN
           IF nodeColor(t, u) = "red"
           THEN [t |-> [t EXCEPT !.n[p].color = "black", !.n[u].color = "black",
                                 !.n[g].color = "red"],
                 z |-> g, done |-> FALSE]
           ELSE LET t1 == IF z = t.n[p].left THEN rotateRight(t, p) ELSE t IN
                LET z1 == IF z = t.n[p].left THEN p ELSE z IN
                LET p1 == t1.n[z1].parent IN
                LET t2 == [t1 EXCEPT !.n[p1].color = "black", !.n[g].color = "red"] IN
                [t |-> rotateLeft(t2, g), z |-> z1, done |-> FALSE]

\* one iteration of the DeleteFixup loop at the position x under parent xp: done
\* when the loop exits, after painting x Black
deleteFixupStep(t, x, xp) ==
    IF x = t.root \/ nodeColor(t, x) = "red"
    THEN [t |-> IF x = Nil THEN t ELSE [t EXCEPT !.n[x].color = "black"],
          x |-> x, xp |-> xp, done |-> TRUE]
    ELSE
      IF x = t.n[xp].left
      THEN
        LET w0 == t.n[xp].right IN
        LET t1 == IF nodeColor(t, w0) = "red"
                  THEN rotateLeft([t EXCEPT !.n[w0].color = "black",
                                            !.n[xp].color = "red"], xp)
                  ELSE t IN
        LET w1 == t1.n[xp].right IN
        IF nodeColor(t1, t1.n[w1].left) = "black" /\ nodeColor(t1, t1.n[w1].right) = "black"
        THEN [t |-> [t1 EXCEPT !.n[w1].color = "red"],
              x |-> xp, xp |-> t1.n[xp].parent, done |-> FALSE]
        ELSE
          LET t2 == IF nodeColor(t1, t1.n[w1].right) = "black"
                    THEN rotateRight([t1 EXCEPT !.n[t1.n[w1].left].color = "black",
                                                !.n[w1].color = "red"], w1)
                    ELSE t1 IN
          LET w2 == t2.n[xp].right IN
          LET t3 == [t2 EXCEPT !.n[w2].color = t2.n[xp].color,
                               !.n[xp].color = "black",
                               !.n[t2.n[w2].right].color = "black"] IN
          LET t4 == rotateLeft(t3, xp) IN
          [t |-> t4, x |-> t4.root, xp |-> Nil, done |-> FALSE]
      ELSE
        LET w0 == t.n[xp].left IN
        LET t1 == IF nodeColor(t, w0) = "red"
                  THEN rotateRight([t EXCEPT !.n[w0].color = "black",
                                             !.n[xp].color = "red"], xp)
                  ELSE t IN
        LET w1 == t1.n[xp].left IN
        IF nodeColor(t1, t1.n[w1].left) = "black" /\ nodeColor(t1, t1.n[w1].right) = "black"
        THEN [t |-> [t1 EXCEPT !.n[w1].color = "red"],
              x |-> xp, xp |-> t1.n[xp].parent, done |-> FALSE]
        ELSE
          LET t2 == IF nodeColor(t1, t1.n[w1].left) = "black"
                    THEN rotateLeft([t1 EXCEPT !.n[t1.n[w1].right].color = "black",
                                               !.n[w1].color = "red"], w1)
                    ELSE t1 IN
          LET w2 == t2.n[xp].left IN
          LET t3 == [t2 EXCEPT !.n[w2].color = t2.n[xp].color,
                               !.n[xp].color = "black",
                               !.n[t2.n[w2].left].color = "black"] IN
          LET t4 == rotateRight(t3, xp) IN
          [t |-> t4, x |-> t4.root, xp |-> Nil, done |-> FALSE]

\* removeNode that copies the successor's key into z but not its value
removeNodeKeyOnly(t, z) ==
    LET two == t.n[z].left # Nil /\ t.n[z].right # Nil IN
    LET y == IF two THEN minimumNode(t, t.n[z].right) ELSE z IN
    LET t1 == IF two THEN [t EXCEPT !.n[z].key = t.n[y].key] ELSE t IN
    LET x == IF t1.n[y].left # Nil THEN t1.n[y].left ELSE t1.n[y].right IN
    LET xp == t1.n[y].parent IN
    LET wasBlack == t1.n[y].color = "black" IN
    LET t2 == [replaceInParent(t1, y, x) EXCEPT !.n[y] = FreeNode] IN
    LET t3 == IF wasBlack THEN DeleteFixup(t2, x, xp) ELSE t2 IN
    Relocate([t3 EXCEPT !.size = t.size - 1])

\* remove the node z that lookup found
removeNode(t, z) ==
    \* two children: copy the in-order successor into z and remove the successor
    LET two == t.n[z].left # Nil /\ t.n[z].right # Nil IN
    LET y == IF two THEN minimumNode(t, t.n[z].right) ELSE z IN
    LET t1 == IF two THEN [t EXCEPT !.n[z].key = t.n[y].key, !.n[z].value = t.n[y].value]
              ELSE t IN
    \* splice out y, which has at most one child
    LET x == IF t1.n[y].left # Nil THEN t1.n[y].left ELSE t1.n[y].right IN
    LET xp == t1.n[y].parent IN
    LET wasBlack == t1.n[y].color = "black" IN
    LET t2 == [replaceInParent(t1, y, x) EXCEPT !.n[y] = FreeNode] IN
    LET t3 == IF wasBlack THEN DeleteFixup(t2, x, xp) ELSE t2 IN
    Relocate([t3 EXCEPT !.size = t.size - 1])

\* Remove that decrements the size before it knows whether the key exists
TreeRemoveEagerSize(t, key) ==
    LET z == lookup(t, key) IN
    IF z = Nil THEN [t EXCEPT !.size = t.size - 1] ELSE removeNode(t, z)

TreeRemove(t, key) ==
    LET z == lookup(t, key) IN
    IF z = Nil THEN t ELSE removeNode(t, z)

TreeClear(t) == NewTree

TreeEmpty(t) == t.size = 0

TreeSize(t) == t.size

\* ---- Min / Max / Floor / Ceiling ----
\* Left returns the leftmost node or nil, Right the rightmost node or nil
TreeLeft(t) == IF t.root = Nil THEN Nil ELSE minimumNode(t, t.root)

TreeRight(t) == IF t.root = Nil THEN Nil ELSE maximumNode(t, t.root)

\* <<node, found>>; best is the candidate recorded so far
RECURSIVE floorFrom(_, _, _, _)
floorFrom(t, x, key, best) ==
    IF x = Nil THEN best
    ELSE LET c == Comparator(key, t.n[x].key) IN
         IF c = 0 THEN x
         ELSE IF c < 0 THEN floorFrom(t, t.n[x].left, key, best)
         ELSE floorFrom(t, t.n[x].right, key, x)

TreeFloor(t, key) ==
    LET x == floorFrom(t, t.root, key, Nil) IN
    IF x # Nil THEN <<x, TRUE>> ELSE <<Nil, FALSE>>

RECURSIVE ceilingFrom(_, _, _, _)
ceilingFrom(t, x, key, best) ==
    IF x = Nil THEN best
    ELSE LET c == Comparator(key, t.n[x].key) IN
         IF c = 0 THEN x
         ELSE IF c < 0 THEN ceilingFrom(t, t.n[x].left, key, x)
         ELSE ceilingFrom(t, t.n[x].right, key, best)

TreeCeiling(t, key) ==
    LET x == ceilingFrom(t, t.root, key, Nil) IN
    IF x # Nil THEN <<x, TRUE>> ELSE <<Nil, FALSE>>

\* ---- in-order traversal: the nodes in the order the iterator yields them ----
RECURSIVE inorder(_, _)
inorder(t, x) ==
    IF x = Nil THEN <<>>
    ELSE inorder(t, t.n[x].left) \o <<x>> \o inorder(t, t.n[x].right)

TreeKeys(t) == LET s == inorder(t, t.root) IN [i \in 1..Len(s) |-> t.n[s[i]].key]

TreeValues(t) == LET s == inorder(t, t.root) IN [i \in 1..Len(s) |-> t.n[s[i]].value]

\* ================= the ordered map facade (maps/treemap) =================
\* Put that passes its arguments in the wrong order
PutSwapped(m, key, value) == TreePut(m, value, key)

\* Put that paints the node Black when it overwrites the value of a present key
PutRepaints(m, key, value) ==
    LET z == lookup(m, key) IN
    IF z # Nil THEN [m EXCEPT !.n[z].value = value, !.n[z].color = "black"]
    ELSE TreePut(m, key, value)

Put(m, key, value) == TreePut(m, key, value)

\* Get that takes a nil value for an absent key
GetNilMeansAbsent(m, key) == LET r == TreeGet(m, key) IN <<r[1], r[1] # Nil>>

Get(m, key) == TreeGet(m, key)

\* Remove that leaves the last remaining entry in place
RemoveButLast(m, key) == IF TreeSize(m) = 1 THEN m ELSE TreeRemove(m, key)

Remove(m, key) == TreeRemove(m, key)

\* Empty with the test negated
EmptyNegated(m) == ~TreeEmpty(m)

Empty(m) == TreeEmpty(m)

Size(m) == TreeSize(m)

Keys(m) == TreeKeys(m)

\* Values that forwards to the tree's Keys
ValuesFromKeys(m) == TreeKeys(m)

Values(m) == TreeValues(m)

Clear(m) == TreeClear(m)

Min(m) ==
    LET node == TreeLeft(m) IN
    IF node # Nil THEN <<m.n[node].key, m.n[node].value>> ELSE <<Nil, Nil>>

\* Max that asks the tree for its leftmost node
MaxFromLeft(m) ==
    LET node == TreeLeft(m) IN
    IF node # Nil THEN <<m.n[node].key, m.n[node].value>> ELSE <<Nil, Nil>>

Max(m) ==
    LET node == TreeRight(m) IN
    IF node # Nil THEN <<m.n[node].key, m.n[node].value>> ELSE <<Nil, Nil>>

\* Floor that asks the tree for the ceiling
FloorFromCeiling(m, key) ==
    LET r == TreeCeiling(m, key) IN
    IF r[2] THEN <<m.n[r[1]].key, m.n[r[1]].value>> ELSE <<Nil, Nil>>

Floor(m, key) ==
    LET r == TreeFloor(m, key) IN
    IF r[2] THEN <<m.n[r[1]].key, m.n[r[1]].value>> ELSE <<Nil, Nil>>

\* Ceiling that asks the tree for the floor
CeilingFromFloor(m, key) ==
    LET r == TreeFloor(m, key) IN
    IF r[2] THEN <<m.n[r[1]].key, m.n[r[1]].value>> ELSE <<Nil, Nil>>

Ceiling(m, key) ==
    LET r == TreeCeiling(m, key) IN
    IF r[2] THEN <<m.n[r[1]].key, m.n[r[1]].value>> ELSE <<Nil, Nil>>

\* ================= the in-order iterator (spec.md section 4.3) =================
\* an iterator is a node reference and a position: "begin" is one-before-first,
\* "end" is one-past-last, "between" is on a node
IteratorAt(x) == [node |-> x, position |-> "between"]

IteratorBegin == [node |-> Nil, position |-> "begin"]

IteratorEnd == [node |-> Nil, position |-> "end"]

\* climb from x to the first ancestor reached from its left child
RECURSIVE climbFromRight(_, _)
climbFromRight(t, x) ==
    LET p == t.n[x].parent IN
    IF p = Nil THEN IteratorEnd
    ELSE IF t.n[p].left = x THEN IteratorAt(p)
    ELSE climbFromRight(t, p)

\* climb from x to the first ancestor reached from its right child
RECURSIVE climbFromLeft(_, _)
climbFromLeft(t, x) ==
    LET p == t.n[x].parent IN
    IF p = Nil THEN IteratorBegin
    ELSE IF t.n[p].right = x THEN IteratorAt(p)
    ELSE climbFromLeft(t, p)

\* Next that steps to the right child instead of the leftmost node under it
IteratorNextRightChild(t, i) ==
    IF i.position = "end" THEN IteratorEnd
    ELSE IF i.position = "begin"
    THEN (IF TreeLeft(t) = Nil THEN IteratorEnd ELSE IteratorAt(TreeLeft(t)))
    ELSE IF t.n[i.node].right # Nil
    THEN IteratorAt(t.n[i.node].right)
    ELSE climbFromRight(t, i.node)

\* the iterator after Next(); Next() returns true when it is on a node
IteratorNext(t, i) ==
    IF i.position = "end" THEN IteratorEnd
    ELSE IF i.position = "begin"
    THEN (IF TreeLeft(t) = Nil THEN IteratorEnd ELSE IteratorAt(TreeLeft(t)))
    ELSE IF t.n[i.node].right # Nil
    THEN IteratorAt(minimumNode(t, t.n[i.node].right))
    ELSE climbFromRight(t, i.node)

\* the iterator after Prev(); Prev() returns true when it is on a node
IteratorPrev(t, i) ==
    IF i.position = "begin" THEN IteratorBegin
    ELSE IF i.position = "end"
    THEN (IF TreeRight(t) = Nil THEN IteratorBegin ELSE IteratorAt(TreeRight(t)))
    ELSE IF t.n[i.node].left # Nil
    THEN IteratorAt(maximumNode(t, t.n[i.node].left))
    ELSE climbFromLeft(t, i.node)

IteratorKey(t, i) == t.n[i.node].key

IteratorValue(t, i) == t.n[i.node].value

\* ================= the hash map (a native map behind Get/Put/Remove) =================
\* a hash map is a set of <<key, value>> entries, at most one per key
MaxBidi == 3
BidiKeySet == 0..MaxBidi

HashNew == {}

HashHas(m, key) == \E e \in m : e[1] = key

HashGet(m, key) ==
    IF HashHas(m, key)
    THEN <<(CHOOSE e \in m : e[1] = key)[2], TRUE>>
    ELSE <<Nil, FALSE>>

HashRemove(m, key) == {e \in m : e[1] # key}

HashPut(m, key, value) == HashRemove(m, key) \cup {<<key, value>>}

HashSize(m) == Cardinality(m)

HashKeys(m) == {e[1] : e \in m}

HashClear(m) == {}

\* ================= the bidirectional map (maps/hashbidimap) =================
BidiNew == [forwardMap |-> HashNew, inverseMap |-> HashNew]

\* Put that stores both directions without removing what they displace
BidiPutNoCleanup(m, key, value) ==
    [forwardMap |-> HashPut(m.forwardMap, key, value),
     inverseMap |-> HashPut(m.inverseMap, value, key)]

BidiPut(m, key, value) ==
    LET byKey == HashGet(m.forwardMap, key) IN
    LET inv1 == IF byKey[2] THEN HashRemove(m.inverseMap, byKey[1])
                ELSE m.inverseMap IN
    LET byValue == HashGet(inv1, value) IN
    LET fwd1 == IF byValue[2] THEN HashRemove(m.forwardMap, byValue[1])
                ELSE m.forwardMap IN
    [forwardMap |-> HashPut(fwd1, key, value),
     inverseMap |-> HashPut(inv1, value, key)]

BidiGet(m, key) == HashGet(m.forwardMap, key)

BidiGetKey(m, value) == HashGet(m.inverseMap, value)

BidiRemove(m, key) ==
    LET r == HashGet(m.forwardMap, key) IN
    IF r[2]
    THEN [forwardMap |-> HashRemove(m.forwardMap, key),
          inverseMap |-> HashRemove(m.inverseMap, r[1])]
    ELSE m

BidiSize(m) == HashSize(m.forwardMap)

BidiEmpty(m) == BidiSize(m) = 0

BidiKeys(m) == HashKeys(m.forwardMap)

BidiValues(m) == HashKeys(m.inverseMap)

BidiClear(m) ==
    [forwardMap |-> HashClear(m.forwardMap), inverseMap |-> HashClear(m.inverseMap)]

\* ================= the doubly-linked list of keys =================
\* the list is the sequence of its values; positions are counted from 0
DllNew == <<>>

DllAppend(l, v) == Append(l, v)

DllSize(l) == Len(l)

DllValues(l) == l

DllIndexOf(l, v) ==
    IF \E i \in 1..Len(l) : l[i] = v
    THEN (CHOOSE i \in 1..Len(l) : l[i] = v /\ \A j \in 1..(i - 1) : l[j] # v) - 1
    ELSE -1

DllRemove(l, index) ==
    IF index >= 0 /\ index < Len(l)
    THEN [i \in 1..(Len(l) - 1) |-> IF i <= index THEN l[i] ELSE l[i + 1]]
    ELSE l

DllClear(l) == <<>>

\* ================= the insertion-ordered map (maps/linkedhashmap) =================
MaxLinked == 3
LinkedKeySet == 0..MaxLinked
\* the stored values: nil and one value that is not nil
LinkedValSet == {Nil, MaxVal}

\* the native table is a set of <<key, value>> entries, at most one per key
MapHas(table, key) == \E e \in table : e[1] = key

\* table[key]: the stored value, nil when the key has no entry
MapIndex(table, key) ==
    IF MapHas(table, key) THEN (CHOOSE e \in table : e[1] = key)[2] ELSE Nil

MapDelete(table, key) == {e \in table : e[1] # key}

MapStore(table, key, value) == MapDelete(table, key) \cup {<<key, value>>}

LinkedNew == [table |-> {}, ordering |-> DllNew]

\* Put that appends the key to the ordering also when the table has it
LinkedPutAlwaysAppend(m, key, value) ==
    [table |-> MapStore(m.table, key, value),
     ordering |-> DllAppend(m.ordering, key)]

LinkedPut(m, key, value) ==
    [table |-> MapStore(m.table, key, value),
     ordering |-> IF ~MapHas(m.table, key) THEN DllAppend(m.ordering, key)
                  ELSE m.ordering]

LinkedGet(m, key) ==
    LET value == MapIndex(m.table, key) IN
    <<value, value # Nil>>

LinkedRemove(m, key) ==
    IF MapHas(m.table, key)
    THEN [table |-> MapDelete(m.table, key),
          ordering |-> DllRemove(m.ordering, DllIndexOf(m.ordering, key))]
    ELSE m

LinkedSize(m) == DllSize(m.ordering)

LinkedEmpty(m) == LinkedSize(m) = 0

LinkedKeys(m) == DllValues(m.ordering)

LinkedClear(m) == [table |-> {}, ordering |-> DllClear(m.ordering)]

\* ---- reference: the live entries as <<key, value>> in first-insertion order ----
LRefIndex(r, key) ==
    IF \E i \in 1..Len(r) : r[i][1] = key
    THEN CHOOSE i \in 1..Len(r) : r[i][1] = key
    ELSE 0

LRefPut(r, key, value) ==
    IF LRefIndex(r, key) # 0
    THEN [r EXCEPT ![LRefIndex(r, key)] = <<key, value>>]
    ELSE Append(r, <<key, value>>)

LRefRemove(r, key) == SelectSeq(r, LAMBDA e : e[1] # key)

LRefKeys(r) == [i \in 1..Len(r) |-> r[i][1]]

\* ================= the array list (lists/arraylist) =================
MaxListVal == 1
MaxListSize == 4
\* the stored values: nil, the zero value of a slot, and one value that is not nil
ListValSet == {Nil, MaxListVal}
\* the argument lists of a variadic call: no, one or two values
ArgSeqs ==
    {<<>>} \cup {<<a>> : a \in ListValSet} \cup {<<a, b>> : a, b \in ListValSet}
\* growthFactor 2.0: the capacity doubles
growthFactor == 2
\* shrinkFactor 0.25: int(float32(capacity) * 0.25) is capacity \div 4
shrinkDivisor == 4

\* a list is its backing slice elements, whose length is its capacity, and its
\* size; positions are counted from 0, so index i is elements[i + 1]
ListNew == [elements |-> <<>>, size |-> 0]

withinRange(lst, index) == index >= 0 /\ index < lst.size

\* copy(dst[at:], src): as many leading elements of src as fit
copy(dst, at, src) ==
    [p \in 1..Len(dst) |->
        IF p > at /\ p - at <= Len(src) THEN src[p - at] ELSE dst[p]]

resize(lst, cap) ==
    [lst EXCEPT !.elements = copy([p \in 1..cap |-> Nil], 0, lst.elements)]

growBy(lst, n) ==
    LET currentCapacity == Len(lst.elements) IN
    IF lst.size + n >= currentCapacity
    THEN resize(lst, growthFactor * (currentCapacity + n))
    ELSE lst

shrink(lst) ==
    LET currentCapacity == Len(lst.elements) IN
    IF lst.size <= currentCapacity \div shrinkDivisor
    THEN resize(lst, lst.size)
    ELSE lst

ListAdd(lst, values) ==
    LET g == growBy(lst, Len(values)) IN
    [elements |-> [p \in 1..Len(g.elements) |->
                     IF p > g.size /\ p <= g.size + Len(values)
                     THEN values[p - g.size] ELSE g.elements[p]],
     size |-> g.size + Len(values)]

ListGet(lst, index) ==
    IF ~withinRange(lst, index) THEN <<Nil, FALSE>>
    ELSE <<lst.elements[index + 1], TRUE>>

ListRemove(lst, index) ==
    IF ~withinRange(lst, index) THEN lst
    ELSE LET cleared == [lst.elements EXCEPT ![index + 1] = Nil] IN
         LET shifted == copy(cleared, index,
                             SubSeq(cleared, index + 2, lst.size)) IN
         shrink([elements |-> shifted, size |-> lst.size - 1])

ListContains(lst, values) ==
    \A i \in 1..Len(values) :
        \E p \in 1..Len(lst.elements) : lst.elements[p] = values[i]

ListValues(lst) == SubSeq(lst.elements, 1, lst.size)

ListIndexOf(lst, value) ==
    IF lst.size = 0 THEN -1
    ELSE IF \E p \in 1..Len(lst.elements) : lst.elements[p] = value
    THEN (CHOOSE p \in 1..Len(lst.elements) :
             /\ lst.elements[p] = value
             /\ \A q \in 1..(p - 1) : lst.elements[q] # value) - 1
    ELSE -1

ListEmpty(lst) == lst.size = 0

ListSize(lst) == lst.size

ListClear(lst) == [elements |-> <<>>, size |-> 0]

\* Insert that writes the values at index without shifting the tail right
ListInsertNoShift(lst, index, values) ==
    IF ~withinRange(lst, index)
    THEN (IF index = lst.size THEN ListAdd(lst, values) ELSE lst)
    ELSE LET l == Len(values) IN
         LET g == growBy(lst, l) IN
         [elements |-> copy(g.elements, index, values), size |-> g.size + l]

ListInsert(lst, index, values) ==
    IF ~withinRange(lst, index)
    THEN (IF index = lst.size THEN ListAdd(lst, values) ELSE lst)
    ELSE LET l == Len(values) IN
         LET g == growBy(lst, l) IN
         LET size == g.size + l IN
         LET shifted == copy(g.elements, index + l,
                             SubSeq(g.elements, index + 1, size - l)) IN
         [elements |-> copy(shifted, index, values), size |-> size]

ListSet(lst, index, value) ==
    IF ~withinRange(lst, index)
    THEN (IF index = lst.size THEN ListAdd(lst, <<value>>) ELSE lst)
    ELSE [lst EXCEPT !.elements[index + 1] = value]

\* ---- the array list's iterator (lists/arraylist/iterator.go) ----
\* an iterator is its index; the list it walks is passed to each call
ListIterator(lst) == [index |-> -1]

\* Next that steps without the test against the size
ListIteratorNextUnchecked(lst, iterator) == [index |-> iterator.index + 1]

ListIteratorNext(lst, iterator) ==
    IF iterator.index < lst.size THEN [index |-> iterator.index + 1]
    ELSE iterator

ListIteratorPrev(lst, iterator) ==
    IF iterator.index >= 0 THEN [index |-> iterator.index - 1]
    ELSE iterator

ListIteratorValue(lst, iterator) == lst.elements[iterator.index + 1]

ListIteratorIndex(iterator) == iterator.index

ListIteratorBegin(lst, iterator) == [index |-> -1]

ListIteratorEnd(lst, iterator) == [index |-> lst.size]

ListIteratorFirst(lst, iterator) ==
    ListIteratorNext(lst, ListIteratorBegin(lst, iterator))

ListIteratorLast(lst, iterator) ==
    ListIteratorPrev(lst, ListIteratorEnd(lst, iterator))

\* ================= the reference model =================
\* a sequence of <<key, value>> pairs, ascending by key, keys unique
RefPut(r, k, v) ==
    LET lo == SelectSeq(r, LAMBDA e : e[1] < k) IN
    LET hi == SelectSeq(r, LAMBDA e : e[1] > k) IN
    lo \o <<<<k, v>>>> \o hi

RefRemove(r, k) == SelectSeq(r, LAMBDA e : e[1] # k)

RefHas(r, k) == \E i \in 1..Len(r) : r[i][1] = k

RefGet(r, k) ==
    IF RefHas(r, k)
    THEN <<r[CHOOSE i \in 1..Len(r) : r[i][1] = k][2], TRUE>>
    ELSE <<Nil, FALSE>>

RefKeys(r) == [i \in 1..Len(r) |-> r[i][1]]

RefValues(r) == [i \in 1..Len(r) |-> r[i][2]]

\* the entries with key <= q, and the entries with key >= q
RefBelow(r, q) == SelectSeq(r, LAMBDA e : e[1] <= q)

RefAbove(r, q) == SelectSeq(r, LAMBDA e : e[1] >= q)

\* ================= the state machine =================
\* the keys of the calls that SpecCalls records
CallKeys == 0..(MaxKey - 1)

NoCall == [op |-> "New", key |-> Nil, value |-> Nil, had |-> FALSE, size |-> 0]

\* no iterator has been made: made is FALSE.  Once made, cur is the iterator,
\* ok the result of its last Next or Prev, dir the direction walked since the
\* last Begin ("fwd") or End ("bwd"), or "mixed"; steps counts the
\* Next or Prev calls of that walk up to one past the size, and walk lists the
\* keys they visited
NoIterator == [made |-> FALSE, cur |-> IteratorBegin, ok |-> FALSE,
               dir |-> "fwd", steps |-> 0, walk |-> <<>>]

\* byKey and byValue are what Get(key) and GetKey(value) returned before the call
NoBidiCall == [op |-> "New", key |-> Nil, value |-> Nil,
               byKey |-> <<Nil, FALSE>>, byValue |-> <<Nil, FALSE>>]

\* had: the key was in the table before the call; index: its position in the
\* ordering before the call, -1 when it had none
NoLinkedCall == [op |-> "New", key |-> Nil, value |-> Nil, had |-> FALSE, index |-> -1]

\* index and values are recorded for Insert; the other calls record their
\* name alone
NoListCall == [op |-> "New", index |-> 0, values |-> <<>>]

\* no iterator has been made: made is FALSE.  Once made, cur is the iterator,
\* ok the result of its last Next, Prev, First or Last, dir the direction
\* walked since the last Begin ("fwd") or End ("bwd"), or "mixed"; steps counts
\* the Next or Prev calls of that walk up to one past the size, and walk lists
\* the indices at which they returned true
NoListIterator == [made |-> FALSE, cur |-> [index |-> -1], ok |-> FALSE,
                   dir |-> "fwd", steps |-> 0, walk |-> <<>>]

\* no call is in progress: pc is "idle".  During a Put pc is "insert", during a
\* Remove "delete"; t is the tree the call is working on, x the focus of the
\* fixup loop and xp its parent, steps the iterations the loop has made
Idle == [pc |-> "idle", t |-> NewTree, x |-> Nil, xp |-> Nil, steps |-> 0,
         key |-> Nil, value |-> Nil]

Init ==
    /\ tree = NewTree
    /\ ref = <<>>
    /\ last = NoCall
    /\ it = NoIterator
    /\ bidi = BidiNew
    /\ bidiLast = NoBidiCall
    /\ linked = LinkedNew
    /\ linkedRef = <<>>
    /\ linkedLast = NoLinkedCall
    /\ list = ListNew
    /\ listLast = NoListCall
    /\ listIt = NoListIterator
    /\ call = Idle

\* ---- Spec: every sequence of Put / Remove / Clear over KeySet and ValSet ----
PutStep(k, v) ==
    /\ tree' = Put(tree, k, v)
    /\ ref' = RefPut(ref, k, v)
    /\ UNCHANGED last
    /\ UNCHANGED others

RemoveStep(k) ==
    /\ tree' = Remove(tree, k)
    /\ ref' = RefRemove(ref, k)
    /\ UNCHANGED last
    /\ UNCHANGED others

ClearStep ==
    /\ tree' = Clear(tree)
    /\ ref' = <<>>
    /\ UNCHANGED last
    /\ UNCHANGED others

Next ==
    \/ \E k \in KeySet, v \in ValSet : PutStep(k, v)
    \/ \E k \in KeySet : RemoveStep(k)
    \/ ClearStep

Spec == Init /\ [][Next]_vars

\* ---- SpecShape: the same calls over the larger key range ShapeKeys, every ----
\* ---- key always put with the same value, for the shapes of larger trees  ----
ShapeVal(k) == k % (MaxVal + 1)

ShapeNext ==
    \/ \E k \in ShapeKeys : PutStep(k, ShapeVal(k))
    \/ \E k \in ShapeKeys : RemoveStep(k)
    \/ ClearStep

SpecShape == Init /\ [][ShapeNext]_vars

\* ---- SpecCalls: the same calls over CallKeys, each recorded in last with ----
\* ---- its arguments, whether the key was present and Size() before it    ----
DoPut(k, v) ==
    /\ tree' = Put(tree, k, v)
    /\ ref' = RefPut(ref, k, v)
    /\ last' = [op |-> "Put", key |-> k, value |-> v,
                had |-> RefHas(ref, k), size |-> Size(tree)]
    /\ UNCHANGED others

DoRemove(k) ==
    /\ tree' = Remove(tree, k)
    /\ ref' = RefRemove(ref, k)
    /\ last' = [op |-> "Remove", key |-> k, value |-> Nil,
                had |-> RefHas(ref, k), size |-> Size(tree)]
    /\ UNCHANGED others

DoClear ==
    /\ tree' = Clear(tree)
    /\ ref' = <<>>
    /\ last' = [op |-> "Clear", key |-> Nil, value |-> Nil,
                had |-> FALSE, size |-> Size(tree)]
    /\ UNCHANGED others

NextCalls ==
    \/ \E k \in CallKeys, v \in ValSet : DoPut(k, v)
    \/ \E k \in CallKeys : DoRemove(k)
    \/ DoClear

SpecCalls == Init /\ [][NextCalls]_vars

\* ---- SpecDrain: Put, Remove and Clear over the keys 0..MaxDrainKey, one ----
\* ---- value per key                                                       ----
DrainKeys == 0..MaxDrainKey

DrainNext ==
    \/ \E k \in DrainKeys : PutStep(k, ShapeVal(k))
    \/ \E k \in DrainKeys : RemoveStep(k)
    \/ ClearStep

SpecDrain == Init /\ [][DrainNext]_vars

\* ---- SpecFixup: Put and Remove over the keys 0..MaxFixKey, with the fixup ----
\* ---- loops followed one iteration at a time.  A call runs to its return:  ----
\* ---- the loop's next iteration is always taken (weak fairness)            ----
FixKeys == 0..MaxFixKey

BeginPut(k, v) ==
    /\ call.pc = "idle"
    /\ IF lookup(tree, k) # Nil
       THEN /\ tree' = [tree EXCEPT !.n[lookup(tree, k)].value = v]
            /\ ref' = RefPut(ref, k, v)
            /\ UNCHANGED call
       ELSE /\ call' = [pc |-> "insert", t |-> attachLeaf(tree, k, v).t,
                        x |-> attachLeaf(tree, k, v).z, xp |-> Nil, steps |-> 0,
                        key |-> k, value |-> v]
            /\ UNCHANGED <<tree, ref>>
    /\ UNCHANGED <<last, it, bidi, bidiLast, linked, linkedRef, linkedLast,
                   list, listLast, listIt>>

InsertFixupIteration ==
    /\ call.pc = "insert"
    /\ LET r == insertFixupStep(call.t, call.x) IN
       IF r.done
       THEN /\ tree' = [r.t EXCEPT !.size = tree.size + 1]
            /\ ref' = RefPut(ref, call.key, call.value)
            /\ call' = Idle
       ELSE /\ call' = [call EXCEPT !.t = r.t, !.x = r.z, !.steps = call.steps + 1]
            /\ UNCHANGED <<tree, ref>>
    /\ UNCHANGED <<last, it, bidi, bidiLast, linked, linkedRef, linkedLast,
                   list, listLast, listIt>>

BeginRemove(k) ==
    /\ call.pc = "idle"
    /\ lookup(tree, k) # Nil
    /\ LET s == spliceOut(tree, lookup(tree, k)) IN
       IF s.wasBlack
       THEN /\ call' = [pc |-> "delete", t |-> s.t, x |-> s.x, xp |-> s.xp,
                        steps |-> 0, key |-> k, value |-> Nil]
            /\ UNCHANGED <<tree, ref>>
       ELSE /\ tree' = Relocate([s.t EXCEPT !.size = tree.size - 1])
            /\ ref' = RefRemove(ref, k)
            /\ UNCHANGED call
    /\ UNCHANGED <<last, it, bidi, bidiLast, linked, linkedRef, linkedLast,
                   list, listLast, listIt>>

DeleteFixupIteration ==
    /\ call.pc = "delete"
    /\ LET r == deleteFixupStep(call.t, call.x, call.xp) IN
       IF r.done
       THEN /\ tree' = Relocate([r.t EXCEPT !.size = tree.size - 1])
            /\ ref' = RefRemove(ref, call.key)
            /\ call' = Idle
       ELSE /\ call' = [call EXCEPT !.t = r.t, !.x = r.x, !.xp = r.xp,
                                    !.steps = call.steps + 1]
            /\ UNCHANGED <<tree, ref>>
    /\ UNCHANGED <<last, it, bidi, bidiLast, linked, linkedRef, linkedLast,
                   list, listLast, listIt>>

FixupNext ==
    \/ \E k \in FixKeys : BeginPut(k, ShapeVal(k))
    \/ \E k \in FixKeys : BeginRemove(k)
    \/ InsertFixupIteration
    \/ DeleteFixupIteration

SpecFixup ==
    /\ Init
    /\ [][FixupNext]_vars
    /\ WF_vars(InsertFixupIteration)
    /\ WF_vars(DeleteFixupIteration)

\* ---- SpecIter: a map is built over KeySet, then an iterator is made and ----
\* ---- stepped; the map is not changed once the iterator exists           ----
MakeIterator ==
    /\ ~it.made
    /\ it' = [NoIterator EXCEPT !.made = TRUE]
    /\ UNCHANGED <<tree, ref, last>>
    /\ UNCHANGED <<bidi, bidiLast, linked, linkedRef, linkedLast, list, listLast, listIt,
                   call>>

\* the walk record after a step in direction d that left the iterator at c
Walked(d, c) ==
    LET same == it.dir = d IN
    LET n == IF same THEN it.steps ELSE 0 IN
    [made |-> TRUE, cur |-> c, ok |-> c.position = "between",
     dir |-> IF same THEN d ELSE "mixed",
     steps |-> IF same /\ n <= Size(tree) THEN n + 1 ELSE n,
     walk |-> IF ~same THEN <<>>
              ELSE IF c.position = "between" THEN Append(it.walk, IteratorKey(tree, c))
              ELSE it.walk]

NextCall ==
    /\ it.made
    /\ it' = Walked("fwd", IteratorNext(tree, it.cur))
    /\ UNCHANGED <<tree, ref, last>>
    /\ UNCHANGED <<bidi, bidiLast, linked, linkedRef, linkedLast, list, listLast, listIt,
                   call>>

PrevCall ==
    /\ it.made
    /\ it' = Walked("bwd", IteratorPrev(tree, it.cur))
    /\ UNCHANGED <<tree, ref, last>>
    /\ UNCHANGED <<bidi, bidiLast, linked, linkedRef, linkedLast, list, listLast, listIt,
                   call>>

BeginCall ==
    /\ it.made
    /\ it' = [NoIterator EXCEPT !.made = TRUE]
    /\ UNCHANGED <<tree, ref, last>>
    /\ UNCHANGED <<bidi, bidiLast, linked, linkedRef, linkedLast, list, listLast, listIt,
                   call>>

EndCall ==
    /\ it.made
    /\ it' = [NoIterator EXCEPT !.made = TRUE, !.cur = IteratorEnd, !.dir = "bwd"]
    /\ UNCHANGED <<tree, ref, last>>
    /\ UNCHANGED <<bidi, bidiLast, linked, linkedRef, linkedLast, list, listLast, listIt,
                   call>>

IterNext ==
    \/ \E k \in KeySet : ~it.made /\ PutStep(k, ShapeVal(k))
    \/ \E k \in KeySet : ~it.made /\ RemoveStep(k)
    \/ MakeIterator
    \/ NextCall
    \/ PrevCall
    \/ BeginCall
    \/ EndCall

SpecIter == Init /\ [][IterNext]_vars

\* ---- SpecBidi: Put, Remove and Clear on the bidirectional map ----
BidiPutStep(k, v) ==
    /\ bidi' = BidiPut(bidi, k, v)
    /\ bidiLast' = [op |-> "Put", key |-> k, value |-> v,
                    byKey |-> BidiGet(bidi, k), byValue |-> BidiGetKey(bidi, v)]
    /\ UNCHANGED notBidi

BidiRemoveStep(k) ==
    /\ bidi' = BidiRemove(bidi, k)
    /\ bidiLast' = [op |-> "Remove", key |-> k, value |-> Nil,
                    byKey |-> BidiGet(bidi, k), byValue |-> <<Nil, FALSE>>]
    /\ UNCHANGED notBidi

BidiClearStep ==
    /\ bidi' = BidiClear(bidi)
    /\ bidiLast' = [NoBidiCall EXCEPT !.op = "Clear"]
    /\ UNCHANGED notBidi

BidiNext ==
    \/ \E k \in BidiKeySet, v \in BidiKeySet : BidiPutStep(k, v)
    \/ \E k \in BidiKeySet : BidiRemoveStep(k)
    \/ BidiClearStep

SpecBidi == Init /\ [][BidiNext]_vars

\* ---- SpecLinked: Put, Remove and Clear on the insertion-ordered map ----
LinkedPutStep(k, v) ==
    /\ linked' = LinkedPut(linked, k, v)
    /\ linkedRef' = LRefPut(linkedRef, k, v)
    /\ linkedLast' = [op |-> "Put", key |-> k, value |-> v,
                      had |-> MapHas(linked.table, k),
                      index |-> DllIndexOf(linked.ordering, k)]
    /\ UNCHANGED notLinked

LinkedRemoveStep(k) ==
    /\ linked' = LinkedRemove(linked, k)
    /\ linkedRef' = LRefRemove(linkedRef, k)
    /\ linkedLast' = [op |-> "Remove", key |-> k, value |-> Nil,
                      had |-> MapHas(linked.table, k),
                      index |-> DllIndexOf(linked.ordering, k)]
    /\ UNCHANGED notLinked

LinkedClearStep ==
    /\ linked' = LinkedClear(linked)
    /\ linkedRef' = <<>>
    /\ linkedLast' = [NoLinkedCall EXCEPT !.op = "Clear"]
    /\ UNCHANGED notLinked

LinkedNext ==
    \/ \E k \in LinkedKeySet, v \in LinkedValSet : LinkedPutStep(k, v)
    \/ \E k \in LinkedKeySet : LinkedRemoveStep(k)
    \/ LinkedClearStep

SpecLinked == Init /\ [][LinkedNext]_vars

\* ---- SpecList: Add, Insert, Set, Remove and Clear on the array list ----
ListIndexSet == (0 - 1)..(MaxListSize + 1)

ListAddStep(vs) ==
    /\ ListSize(list) + Len(vs) <= MaxListSize
    /\ list' = ListAdd(list, vs)
    /\ listLast' = [NoListCall EXCEPT !.op = "Add"]
    /\ UNCHANGED <<listIt, notList>>

ListInsertStep(i, vs) ==
    /\ ListSize(list) + Len(vs) <= MaxListSize
    /\ list' = ListInsert(list, i, vs)
    /\ listLast' = [op |-> "Insert", index |-> i, values |-> vs]
    /\ UNCHANGED <<listIt, notList>>

ListSetStep(i, v) ==
    /\ ListSize(list) < MaxListSize \/ i # ListSize(list)
    /\ list' = ListSet(list, i, v)
    /\ listLast' = [NoListCall EXCEPT !.op = "Set"]
    /\ UNCHANGED <<listIt, notList>>

ListRemoveStep(i) ==
    /\ list' = ListRemove(list, i)
    /\ listLast' = [NoListCall EXCEPT !.op = "Remove"]
    /\ UNCHANGED <<listIt, notList>>

ListClearStep ==
    /\ list' = ListClear(list)
    /\ listLast' = [NoListCall EXCEPT !.op = "Clear"]
    /\ UNCHANGED <<listIt, notList>>

ListNext ==
    \/ \E vs \in ArgSeqs : ListAddStep(vs)
    \/ \E i \in ListIndexSet, vs \in ArgSeqs : ListInsertStep(i, vs)
    \/ \E i \in ListIndexSet, v \in ListValSet : ListSetStep(i, v)
    \/ \E i \in ListIndexSet : ListRemoveStep(i)
    \/ ListClearStep

SpecList == Init /\ [][ListNext]_vars

\* ---- SpecListIter: a list is built, then an iterator is made and stepped; ----
\* ---- the list is not changed once the iterator exists                      ----
MakeListIterator ==
    /\ ~listIt.made
    /\ listIt' = [NoListIterator EXCEPT !.made = TRUE, !.cur = ListIterator(list)]
    /\ UNCHANGED <<list, listLast, notList>>

\* the walk record after a step in direction d from the record w that left the
\* iterator at c
ListWalked(w, d, c) ==
    LET same == w.dir = d IN
    LET n == IF same THEN w.steps ELSE 0 IN
    LET ok == withinRange(list, c.index) IN
    [made |-> TRUE, cur |-> c, ok |-> ok,
     dir |-> IF same THEN d ELSE "mixed",
     steps |-> IF same /\ n <= ListSize(list) THEN n + 1 ELSE n,
     walk |-> IF ~same THEN <<>>
              ELSE IF ok THEN Append(w.walk, ListIteratorIndex(c))
              ELSE w.walk]

\* the walk record after Begin (d = "fwd") or End (d = "bwd") left the iterator at c
ListRewound(d, c) ==
    [NoListIterator EXCEPT !.made = TRUE, !.cur = c, !.dir = d]

ListNextCall ==
    /\ listIt.made
    /\ listIt' = ListWalked(listIt, "fwd", ListIteratorNext(list, listIt.cur))
    /\ UNCHANGED <<list, listLast, notList>>

ListPrevCall ==
    /\ listIt.made
    /\ listIt' = ListWalked(listIt, "bwd", ListIteratorPrev(list, listIt.cur))
    /\ UNCHANGED <<list, listLast, notList>>

ListBeginCall ==
    /\ listIt.made
    /\ listIt' = ListRewound("fwd", ListIteratorBegin(list, listIt.cur))
    /\ UNCHANGED <<list, listLast, notList>>

ListEndCall ==
    /\ listIt.made
    /\ listIt' = ListRewound("bwd", ListIteratorEnd(list, listIt.cur))
    /\ UNCHANGED <<list, listLast, notList>>

ListFirstCall ==
    /\ listIt.made
    /\ listIt' = ListWalked(ListRewound("fwd", ListIteratorBegin(list, listIt.cur)),
                            "fwd", ListIteratorFirst(list, listIt.cur))
    /\ UNCHANGED <<list, listLast, notList>>

ListLastCall ==
    /\ listIt.made
    /\ listIt' = ListWalked(ListRewound("bwd", ListIteratorEnd(list, listIt.cur)),
                            "bwd", ListIteratorLast(list, listIt.cur))
    /\ UNCHANGED <<list, listLast, notList>>

ListIterNext ==
    \/ \E vs \in ArgSeqs : ~listIt.made /\ ListAddStep(vs)
    \/ \E i \in ListIndexSet : ~listIt.made /\ ListRemoveStep(i)
    \/ MakeListIterator
    \/ ListNextCall
    \/ ListPrevCall
    \/ ListBeginCall
    \/ ListEndCall
    \/ ListFirstCall
    \/ ListLastCall

SpecListIter == Init /\ [][ListIterNext]_vars

\* ================= properties =================
\* the number of Black nodes on every path from x down to a nil leaf, or -1
\* when two such paths disagree
RECURSIVE blackHeight(_, _)
blackHeight(t, x) ==
    IF x = Nil THEN 0
    ELSE LET l == blackHeight(t, t.n[x].left) IN
         LET r == blackHeight(t, t.n[x].right) IN
         IF l < 0 \/ r < 0 \/ l # r THEN -1
         ELSE l + (IF t.n[x].color = "black" THEN 1 ELSE 0)

RootIsBlack(t) == t.root = Nil \/ t.n[t.root].color = "black"

NoRedRed(t) ==
    \A x \in Live(t) :
        t.n[x].color = "red" =>
            nodeColor(t, t.n[x].left) = "black" /\ nodeColor(t, t.n[x].right) = "black"

\* the nodes reachable from the root
Reachable(t) == LET s == inorder(t, t.root) IN {s[i] : i \in 1..Len(s)}

\* C1: after every Put or Remove, starting from the empty map, the root is
\* Black or the tree is empty, no Red node has a Red child, and every path
\* from the root to a nil leaf passes through the same number of Black nodes.
C1_RedBlack ==
    /\ RootIsBlack(tree)
    /\ NoRedRed(tree)
    /\ blackHeight(tree, tree.root) >= 0

\* a tree in which a Red node has two Black children that are nodes: it was
\* built by a recoloring in InsertFixup and is the Red-sibling case of Remove
C1_Witness ==
    /\ C1_RedBlack
    /\ blackHeight(tree, tree.root) = 3
    /\ \E x \in Live(tree) :
          /\ tree.n[x].color = "red"
          /\ tree.n[x].left # Nil /\ tree.n[x].right # Nil

\* C2: Keys() is strictly ascending under the comparator (so no key appears
\* twice) and Values() lists the values of those keys in the same order.
C2_KeysAscending ==
    LET ks == Keys(tree) IN
    LET vs == Values(tree) IN
    /\ \A i \in 1..(Len(ks) - 1) : Comparator(ks[i], ks[i + 1]) < 0
    /\ Len(vs) = Len(ks)
    /\ \A i \in 1..Len(ks) : vs[i] = RefGet(ref, ks[i])[1] /\ RefHas(ref, ks[i])

\* at least four keys, holding different values
C2_Witness ==
    /\ Len(Keys(tree)) >= 4
    /\ \E i, j \in 1..Len(Values(tree)) : Values(tree)[i] # Values(tree)[j]

\* C3: Size() is the number of keys a full iteration yields, which is the
\* number of live nodes, and Empty() is true exactly when Size() is 0.
C3_SizeConsistent ==
    /\ Size(tree) = Len(Keys(tree))
    /\ Size(tree) = Cardinality(Live(tree))
    /\ Live(tree) = Reachable(tree)
    /\ Empty(tree) <=> (Size(tree) = 0)

\* a Remove has just taken a key out of a map of at least four keys
C3_Witness ==
    /\ last.op = "Remove" /\ last.had /\ last.size >= 4
    /\ Size(tree) = last.size - 1
    /\ ~Empty(tree)

\* C4: the map agrees with the reference sorted association list on every
\* query: Get, Size, Keys, Values, Min, Max, Floor and Ceiling return what the
\* reference model returns.
C4_AgreesWithReference ==
    /\ \A q \in AllKeys : Get(tree, q) = RefGet(ref, q)
    /\ Size(tree) = Len(ref)
    /\ Keys(tree) = RefKeys(ref)
    /\ Values(tree) = RefValues(ref)
    /\ Min(tree) = (IF ref = <<>> THEN <<Nil, Nil>> ELSE ref[1])
    /\ Max(tree) = (IF ref = <<>> THEN <<Nil, Nil>> ELSE ref[Len(ref)])
    /\ \A q \in AllKeys :
          LET b == RefBelow(ref, q) IN
          Floor(tree, q) = (IF b = <<>> THEN <<Nil, Nil>> ELSE b[Len(b)])
    /\ \A q \in AllKeys :
          LET a == RefAbove(ref, q) IN
          Ceiling(tree, q) = (IF a = <<>> THEN <<Nil, Nil>> ELSE a[1])

\* a map of at least four keys with a gap, where a Get misses and Floor and
\* Ceiling of the same key differ
C4_Witness ==
    /\ Len(ref) >= 4
    /\ \E q \in AllKeys :
          /\ ~Get(tree, q)[2]
          /\ Floor(tree, q) # Ceiling(tree, q)
          /\ Floor(tree, q) # <<Nil, Nil>>
          /\ Ceiling(tree, q) # <<Nil, Nil>>

\* C5: Put(k, v) immediately followed by Get(k) returns (v, true), and
\* Remove(k) immediately followed by Get(k) returns found = false.
C5_RoundTrip ==
    /\ last.op = "Put" => Get(tree, last.key) = <<last.value, TRUE>>
    /\ last.op = "Remove" => Get(tree, last.key)[2] = FALSE

\* a Remove has just taken out a key that was in a map of at least three keys
C5_Witness ==
    /\ last.op = "Remove" /\ last.had /\ last.size >= 3
    /\ ~Get(tree, last.key)[2]

\* C6: Put on a key already in the map leaves Size() unchanged and Get of the
\* key returns the new value.
C6_PutReplaces ==
    (last.op = "Put" /\ last.had) =>
        /\ Size(tree) = last.size
        /\ Get(tree, last.key) = <<last.value, TRUE>>

\* a Put has just overwritten the value of a key in a map of at least three
\* keys
C6_Witness ==
    /\ last.op = "Put" /\ last.had /\ last.size >= 3
    /\ Size(tree) = last.size
    /\ Get(tree, last.key) = <<last.value, TRUE>>

\* C7: Remove(k) of an absent key is a no-op: keys, values, Size(), links and
\* colors are unchanged; Size() goes down by one only when the key existed and
\* never goes below 0.
C7_RemoveAbsentNoOp ==
    [][last'.op = "Remove" =>
          /\ (~last'.had => tree' = tree)
          /\ (last'.had => Size(tree') = Size(tree) - 1)
          /\ Size(tree') >= 0]_vars

\* a Remove of an absent key has just been made on a map of at least three keys
C7_Witness ==
    /\ last.op = "Remove" /\ ~last.had
    /\ Size(tree) >= 3 /\ last.size = Size(tree)

\* the keys the reference model holds
RefKeySet(r) == {r[i][1] : i \in 1..Len(r)}

C9_MinMax ==
    LET ks == RefKeySet(ref) IN
    IF ks = {}
    THEN Min(tree) = <<Nil, Nil>> /\ Max(tree) = <<Nil, Nil>>
    ELSE LET lo == CHOOSE k \in ks : \A j \in ks : k <= j IN
         LET hi == CHOOSE k \in ks : \A j \in ks : j <= k IN
         /\ Min(tree) = <<lo, RefGet(ref, lo)[1]>>
         /\ Max(tree) = <<hi, RefGet(ref, hi)[1]>>

\* at least four keys, none of them nil, the smallest and the largest holding
\* different values
C9_Witness ==
    /\ Len(ref) >= 4
    /\ Min(tree)[1] >= 1 /\ Max(tree)[1] > Min(tree)[1]
    /\ Min(tree)[2] # Max(tree)[2]

\* C10 as stated: no found entry of Get, Min, Max, Floor or Ceiling returns
\* what the same call returns for not found.
C10_FoundNeverLooksNotFound ==
    /\ \A q \in AllKeys : Get(tree, q)[2] => Get(tree, q) # <<Nil, FALSE>>
    /\ TreeLeft(tree) # Nil => Min(tree) # <<Nil, Nil>>
    /\ TreeRight(tree) # Nil => Max(tree) # <<Nil, Nil>>
    /\ \A q \in AllKeys : TreeFloor(tree, q)[2] => Floor(tree, q) # <<Nil, Nil>>
    /\ \A q \in AllKeys : TreeCeiling(tree, q)[2] => Ceiling(tree, q) # <<Nil, Nil>>

\* C10 (amended): Get reports not found in its found flag, so a stored nil
\* value is told apart from an absent key.  Min, Max, Floor and Ceiling return
\* (nil, nil) exactly when nothing is found or the entry found has a nil key
\* and a nil value.
C10_NotFoundExplicit ==
    /\ \A q \in AllKeys : Get(tree, q)[2] <=> RefHas(ref, q)
    /\ (Min(tree) = <<Nil, Nil>>) <=> (ref = <<>> \/ ref[1] = <<Nil, Nil>>)
    /\ (Max(tree) = <<Nil, Nil>>) <=> (ref = <<>> \/ ref[Len(ref)] = <<Nil, Nil>>)
    /\ \A q \in AllKeys :
          LET b == RefBelow(ref, q) IN
          (Floor(tree, q) = <<Nil, Nil>>) <=> (b = <<>> \/ b[Len(b)] = <<Nil, Nil>>)
    /\ \A q \in AllKeys :
          LET a == RefAbove(ref, q) IN
          (Ceiling(tree, q) = <<Nil, Nil>>) <=> (a = <<>> \/ a[1] = <<Nil, Nil>>)

\* the map holds the entry nil -> nil, another key with a nil value and a
\* third key: Min() finds the nil entry and returns (nil, nil)
C10_Witness ==
    /\ Len(ref) >= 3
    /\ ref[1] = <<Nil, Nil>>
    /\ TreeLeft(tree) # Nil /\ Min(tree) = <<Nil, Nil>>
    /\ \E q \in AllKeys : q # Nil /\ Get(tree, q) = <<Nil, TRUE>>

\* the sequence s back to front
Reverse(s) == [i \in 1..Len(s) |-> s[Len(s) + 1 - i]]

\* the first n elements of s, all of s when n exceeds its length
Prefix(s, n) == SubSeq(s, 1, IF n < Len(s) THEN n ELSE Len(s))

\* C11: over a map that is not changed during the walk, an iterator stepped
\* forward from one-before-first visits every live key exactly once in ascending
\* order and then reaches past-the-end, where Next returns false; stepped
\* backward from past-the-end it visits the same keys in the reverse order.
C11_IteratorWalk ==
    /\ (it.made /\ it.dir = "fwd") =>
          /\ it.walk = Prefix(RefKeys(ref), it.steps)
          /\ (it.steps > Len(ref)) <=> (it.cur.position = "end")
          /\ (it.steps = 0) <=> (it.cur.position = "begin")
          /\ it.steps > 0 => (it.ok <=> it.steps <= Len(ref))
    /\ (it.made /\ it.dir = "bwd") =>
          /\ it.walk = Prefix(Reverse(RefKeys(ref)), it.steps)
          /\ (it.steps > Len(ref)) <=> (it.cur.position = "begin")
          /\ (it.steps = 0) <=> (it.cur.position = "end")
          /\ it.steps > 0 => (it.ok <=> it.steps <= Len(ref))

\* a backward walk from past-the-end over at least four keys has come to
\* one-before-first, where Prev returned false
C11_Witness ==
    /\ it.made /\ it.dir = "bwd"
    /\ Len(ref) >= 4
    /\ it.cur.position = "begin" /\ ~it.ok
    /\ it.walk = Reverse(RefKeys(ref))

\* C12: in the bidirectional map, after any sequence of Put, Remove and Clear,
\* Get(k) = (v, true) exactly when GetKey(v) = (k, true), and Keys() and
\* Values() both have Size() elements.
C12_ExactInverses ==
    /\ \A k \in BidiKeySet, v \in BidiKeySet :
          (BidiGet(bidi, k) = <<v, TRUE>>) <=> (BidiGetKey(bidi, v) = <<k, TRUE>>)
    /\ Cardinality(BidiKeys(bidi)) = BidiSize(bidi)
    /\ Cardinality(BidiValues(bidi)) = BidiSize(bidi)
    /\ HashSize(bidi.inverseMap) = BidiSize(bidi)
    /\ BidiEmpty(bidi) <=> BidiKeys(bidi) = {}

\* a Put whose key was paired with another value and whose value was paired
\* with another key has displaced both pairs and left others in place
C12_Witness ==
    /\ bidiLast.op = "Put"
    /\ bidiLast.byKey[2] /\ bidiLast.byKey[1] # bidiLast.value
    /\ bidiLast.byValue[2] /\ bidiLast.byValue[1] # bidiLast.key
    /\ BidiGet(bidi, bidiLast.key) = <<bidiLast.value, TRUE>>
    /\ BidiSize(bidi) >= 2

\* C13: in the insertion-ordered map Get(k) returns found = true exactly when k
\* is in the map, for every stored value including nil, with the value most
\* recently Put for k; for an absent key it returns (nil, false).
C13_GetFoundIffPresent ==
    \A k \in LinkedKeySet :
        LinkedGet(linked, k) =
            IF LRefIndex(linkedRef, k) # 0
            THEN <<linkedRef[LRefIndex(linkedRef, k)][2], TRUE>>
            ELSE <<Nil, FALSE>>

\* C14: after any sequence of Put, Remove and Clear, Keys() lists exactly the
\* keys in the table, each once, in the order of their first insertion since
\* they were last absent; a Put on a present key changes its value but not its
\* position; Size() is the number of table entries.
C14_InsertionOrder ==
    /\ LinkedKeys(linked) = LRefKeys(linkedRef)
    /\ \A i, j \in 1..Len(LinkedKeys(linked)) :
          LinkedKeys(linked)[i] = LinkedKeys(linked)[j] => i = j
    /\ {LinkedKeys(linked)[i] : i \in 1..Len(LinkedKeys(linked))}
          = {e[1] : e \in linked.table}
    /\ LinkedSize(linked) = Cardinality(linked.table)
    /\ linked.table = {linkedRef[i] : i \in 1..Len(linkedRef)}
    /\ (linkedLast.op = "Put" /\ linkedLast.had) =>
          /\ DllIndexOf(linked.ordering, linkedLast.key) = linkedLast.index
          /\ MapIndex(linked.table, linkedLast.key) = linkedLast.value

\* a Put has replaced the value of the first of three keys, which were inserted
\* in an order that is not ascending, and the key is still first
C14_Witness ==
    /\ linkedLast.op = "Put" /\ linkedLast.had /\ linkedLast.index = 0
    /\ LinkedSize(linked) = 3
    /\ LinkedKeys(linked)[1] > LinkedKeys(linked)[2]
    /\ LinkedKeys(linked)[1] = linkedLast.key
    /\ MapIndex(linked.table, linkedLast.key) # Nil

\* the values of s as a set
Range(s) == {s[i] : i \in 1..Len(s)}

\* C15: after any sequence of New, Add, Insert, Set, Remove and Clear,
\* Contains(v1, ..., vn) is true exactly when every vi is one of Values(); with
\* no arguments it is true.
C15_ContainsIffInValues ==
    \A vs \in ArgSeqs :
        ListContains(list, vs) <=> Range(vs) \subseteq Range(ListValues(list))

\* C16: after any sequence of New, Add, Insert, Set, Remove and Clear,
\* IndexOf(v) is the smallest index in [0, Size()) whose element equals v, and
\* -1 when there is none; it is never an index >= Size(), so Get(IndexOf(v))
\* returns (v, true) whenever IndexOf(v) is not -1.
C16_IndexOfFirstLive ==
    \A v \in ListValSet :
        LET i == ListIndexOf(list, v) IN
        /\ i < ListSize(list)
        /\ IF v \in Range(ListValues(list))
           THEN /\ ListGet(list, i) = <<v, TRUE>>
                /\ \A j \in 0..(i - 1) : ListGet(list, j)[1] # v
           ELSE i = 0 - 1

\* what Insert(index, values) must make of a list whose Values() are old
InsertedAt(old, index, values) ==
    IF index >= 0 /\ index <= Len(old)
    THEN SubSeq(old, 1, index) \o values \o SubSeq(old, index + 1, Len(old))
    ELSE old

\* C17: Insert(i, vs...) with 0 <= i <= Size() makes Values() equal to
\* old[0..i) followed by vs followed by old[i..) and raises Size() by len(vs);
\* with i < 0 or i > Size() it changes neither Values() nor Size().
C17_InsertShiftsRight ==
    [][listLast'.op = "Insert" =>
          LET i == listLast'.index IN
          LET vs == listLast'.values IN
          LET within == i >= 0 /\ i <= ListSize(list) IN
          /\ ListValues(list') = InsertedAt(ListValues(list), i, vs)
          /\ ListSize(list') = ListSize(list) + (IF within THEN Len(vs) ELSE 0)
          /\ within => \A j \in 0..(Len(vs) - 1) :
                          ListGet(list', i + j) = <<vs[j + 1], TRUE>>]_vars

\* an Insert has put two values, the second not nil, between a first element
\* and a last element that are not nil
C17_Witness ==
    /\ listLast.op = "Insert"
    /\ Len(listLast.values) = 2
    /\ listLast.index > 0
    /\ listLast.index + 2 < ListSize(list)
    /\ ListGet(list, listLast.index + 1) = <<MaxListVal, TRUE>>
    /\ ListGet(list, 0)[1] # Nil
    /\ ListGet(list, ListSize(list) - 1)[1] # Nil

\* the indices a, a + 1, ..., a + n - 1
Upward(a, n) == [i \in 1..n |-> a + i - 1]

\* the indices a, a - 1, ..., a - n + 1
Downward(a, n) == [i \in 1..n |-> a - i + 1]

\* the smaller of a and b
Least(a, b) == IF a < b THEN a ELSE b

\* C18: over a list that is not changed while iterating, the iterator index
\* stays in [-1, Size()]; from a fresh iterator or after Begin, Next returns
\* true exactly Size() times, at indices 0, 1, ..., Size()-1 in order, and then
\* false at one-past-the-end; Prev mirrors this from End down to
\* one-before-first; Next and Prev return true exactly when the resulting index
\* is in [0, Size()), where Value() is the element at that index.
C18_ListIteratorWalk ==
    listIt.made =>
        LET index == ListIteratorIndex(listIt.cur) IN
        LET n == ListSize(list) IN
        /\ index >= 0 - 1 /\ index <= n
        /\ (listIt.dir = "mixed" \/ listIt.steps > 0) =>
              (listIt.ok <=> (index >= 0 /\ index < n))
        /\ listIt.ok =>
              ListIteratorValue(list, listIt.cur) = ListValues(list)[index + 1]
        /\ listIt.dir = "fwd" =>
              /\ index = listIt.steps - 1
              /\ listIt.walk = Upward(0, Least(listIt.steps, n))
              /\ listIt.steps > 0 => (listIt.ok <=> listIt.steps <= n)
        /\ listIt.dir = "bwd" =>
              /\ index = n - listIt.steps
              /\ listIt.walk = Downward(n - 1, Least(listIt.steps, n))
              /\ listIt.steps > 0 => (listIt.ok <=> listIt.steps <= n)

\* a forward walk over a list of at least three elements has visited every
\* index and come to rest one past the end, where Next returned false
C18_Witness ==
    /\ listIt.made /\ listIt.dir = "fwd"
    /\ ListSize(list) >= 3
    /\ ListIteratorIndex(listIt.cur) = ListSize(list)
    /\ ~listIt.ok
    /\ Len(listIt.walk) = ListSize(list)

\* the binary-search-tree and red-black invariants of the map m
ValidTree(m) ==
    /\ LET ks == Keys(m) IN
       /\ \A i \in 1..(Len(ks) - 1) : Comparator(ks[i], ks[i + 1]) < 0
       /\ Size(m) = Len(ks)
    /\ RootIsBlack(m)
    /\ NoRedRed(m)
    /\ blackHeight(m, m.root) >= 0

\* the map m is empty: Size() = 0, Empty() true, Min and Max not found
EmptyMap(m) ==
    /\ Size(m) = 0
    /\ Empty(m)
    /\ Min(m) = <<Nil, Nil>>
    /\ Max(m) = <<Nil, Nil>>
    /\ Keys(m) = <<>>

\* the key removed next from m: the least, the greatest, or the root's
DrainKey(m, order) ==
    IF order = "ascending" THEN Min(m)[1]
    ELSE IF order = "descending" THEN Max(m)[1]
    ELSE m.n[m.root].key

\* removing the keys of m one at a time in the given order leaves a valid tree
\* after each Remove, one entry smaller, and ends in the empty map
RECURSIVE DrainsToEmpty(_, _)
DrainsToEmpty(m, order) ==
    /\ ValidTree(m)
    /\ IF Size(m) = 0 THEN EmptyMap(m)
       ELSE LET key == DrainKey(m, order) IN
            LET after == Remove(m, key) IN
            /\ Size(after) = Size(m) - 1
            /\ Get(after, key) = <<Nil, FALSE>>
            /\ DrainsToEmpty(after, order)

\* C19: from any populated map, removing every key one at a time, in
\* ascending, descending or any other order, leaves after each Remove a tree
\* that satisfies the BST and red-black invariants, and ends in an empty map
\* (Size() = 0, Empty() true, Min and Max not found).  The steps of the
\* specification remove the keys in every order; the three drains follow the
\* ascending and the descending order, and the order that removes the root.
C19_DrainToEmpty ==
    /\ DrainsToEmpty(tree, "ascending")
    /\ DrainsToEmpty(tree, "descending")
    /\ DrainsToEmpty(tree, "root first")
    /\ ref = <<>> => EmptyMap(tree)

\* a map holding every key, whose root has two children, from which the three
\* drains each take as many Removes as there are keys
C19_Witness ==
    /\ Size(tree) = Cardinality(DrainKeys)
    /\ tree.n[tree.root].left # Nil /\ tree.n[tree.root].right # Nil
    /\ DrainsToEmpty(tree, "root first")

\* climbing parent links from x comes to a node without parent in at most
\* fuel steps
RECURSIVE ClimbsToRoot(_, _, _)
ClimbsToRoot(t, x, fuel) ==
    IF t.n[x].parent = Nil THEN x = t.root
    ELSE fuel > 0 /\ ClimbsToRoot(t, t.n[x].parent, fuel - 1)

\* the <<parent, side>> pairs whose child link names x
ParentsOf(t, x) ==
    {<<p, "left">> : p \in {q \in Live(t) : t.n[q].left = x}}
        \cup {<<p, "right">> : p \in {q \in Live(t) : t.n[q].right = x}}

\* the links of t are consistent: the root has no parent, every other node is
\* the left or right child of exactly the node its parent link names, no node
\* is the child of two nodes, and the child links form no cycle
LinksConsistent(t) ==
    /\ t.root = Nil => Live(t) = {}
    /\ t.root # Nil => t.root \in Live(t) /\ t.n[t.root].parent = Nil
    /\ ParentsOf(t, t.root) = {}
    /\ \A x \in Live(t) :
          /\ t.n[x].left # Nil => t.n[x].left \in Live(t)
          /\ t.n[x].right # Nil => t.n[x].right \in Live(t)
          /\ x # t.root =>
                /\ t.n[x].parent \in Live(t)
                /\ \E side \in {"left", "right"} :
                      ParentsOf(t, x) = {<<t.n[x].parent, side>>}
          /\ ClimbsToRoot(t, x, Cardinality(Live(t)))

\* a rotation at x keeps the links consistent and the in-order key sequence
RotationsPreserveOrder(t) ==
    \A x \in Live(t) :
        /\ t.n[x].right # Nil =>
              /\ LinksConsistent(rotateLeft(t, x))
              /\ TreeKeys(rotateLeft(t, x)) = TreeKeys(t)
              /\ rotateLeft(t, x).n[x].parent = t.n[x].right
        /\ t.n[x].left # Nil =>
              /\ LinksConsistent(rotateRight(t, x))
              /\ TreeKeys(rotateRight(t, x)) = TreeKeys(t)
              /\ rotateRight(t, x).n[x].parent = t.n[x].left

\* C20: after every Put or Remove the tree's links are consistent: the root
\* has no parent, every non-root node is the left or right child of exactly
\* the node its parent link names, no node is the child of two nodes, and
\* following child links never forms a cycle; each rotation preserves the
\* in-order key sequence.
C20_LinksConsistent ==
    /\ LinksConsistent(tree)
    /\ RotationsPreserveOrder(tree)

\* a tree of black height 3 holding a node whose right child has a left
\* subtree, so that a left rotation there moves a subtree to a new parent
C20_Witness ==
    /\ LinksConsistent(tree)
    /\ blackHeight(tree, tree.root) = 3
    /\ \E x \in Live(tree) :
          /\ x # tree.root
          /\ tree.n[x].right # Nil
          /\ tree.n[tree.n[x].right].left # Nil
          /\ TreeKeys(rotateLeft(tree, x)) = TreeKeys(tree)

\* the node holding key has a left and a right child
TwoChildren(t, key) ==
    LET z == lookup(t, key) IN
    z # Nil /\ t.n[z].left # Nil /\ t.n[z].right # Nil

\* the sequence s without the element key
Without(s, key) == SelectSeq(s, LAMBDA k : k # key)

\* Remove(key) on the map m deleted exactly key
RemovedExactly(m, key) ==
    LET after == Remove(m, key) IN
    LET ks == Keys(after) IN
    /\ ks = Without(Keys(m), key)
    /\ \A i \in 1..(Len(ks) - 1) : Comparator(ks[i], ks[i + 1]) < 0
    /\ Get(after, key) = <<Nil, FALSE>>
    /\ \A j \in AllKeys \ {key} : Get(after, j) = Get(m, j)
    /\ Size(after) = Size(m) - 1
    /\ Cardinality(Live(after)) = Cardinality(Live(m)) - 1

\* C21: Remove(k) of a key whose node has two children deletes exactly k: the
\* key set afterwards is the old set minus k, every remaining key (the in-order
\* successor, whose key and value moved into the target node, included) still
\* maps to its own previous value, one node is spliced out, and BST order holds.
C21_RemoveTwoChildren ==
    \A k \in DrainKeys : TwoChildren(tree, k) => RemovedExactly(tree, k)

\* a key with two children whose in-order successor lies below the right
\* child, has a right child of its own and holds another value than the key
C21_Witness ==
    \E k \in DrainKeys :
        /\ TwoChildren(tree, k)
        /\ LET z == lookup(tree, k) IN
           LET y == minimumNode(tree, tree.n[z].right) IN
           /\ y # tree.n[z].right
           /\ tree.n[y].right # Nil
           /\ tree.n[y].value # tree.n[z].value
        /\ RemovedExactly(tree, k)

\* the node n with its value left out
Structure(n) ==
    [key |-> n.key, color |-> n.color,
     left |-> n.left, right |-> n.right, parent |-> n.parent]

\* C22: Put(k, v) on a key already present makes no structural change: it
\* overwrites the existing node's value without allocating a node, rotating or
\* recoloring, so every node's parent, left and right links and color, and all
\* other keys' values, are the same before and after.
C22_PutPresentNoStructuralChange ==
    [][(last'.op = "Put" /\ last'.had) =>
          /\ tree'.root = tree.root
          /\ tree'.size = tree.size
          /\ Live(tree') = Live(tree)
          /\ \A x \in NodeIds :
                /\ Structure(tree'.n[x]) = Structure(tree.n[x])
                /\ (x \in Live(tree) /\ tree.n[x].key # last'.key) =>
                      tree'.n[x].value = tree.n[x].value
          /\ \A k \in AllKeys \ {last'.key} : Get(tree', k) = Get(tree, k)
          /\ Get(tree', last'.key) = <<last'.value, TRUE>>]_vars

\* a Put has just overwritten the value of a key held by a Red node below the
\* root, in a map of at least three keys
C22_Witness ==
    /\ last.op = "Put" /\ last.had /\ last.size >= 3
    /\ LET z == lookup(tree, last.key) IN
       /\ z # Nil /\ z # tree.root
       /\ tree.n[z].color = "red"
       /\ tree.n[z].value = last.value

\* the number of nodes on the longest path from x down to a leaf
RECURSIVE Height(_, _)
Height(t, x) ==
    IF x = Nil THEN 0
    ELSE LET l == Height(t, t.n[x].left) IN
         LET r == Height(t, t.n[x].right) IN
         1 + (IF l > r THEN l ELSE r)

\* the InsertFixup loop exits at focus z: its parent is Black or it is the root
InsertLoopExits(t, z) == t.n[z].parent = Nil \/ nodeColor(t, t.n[z].parent) = "black"

\* the DeleteFixup loop exits at position x: the deficiency has reached the
\* root or is absorbed by a Red node
DeleteLoopExits(t, x) == x = t.root \/ nodeColor(t, x) = "red"

====
